---- MODULE Spec2Model ----
(***************************************************************************)
(* aiorm.RequestManager: the token bucket (an asyncio.Queue of tokens      *)
(* filled by the _rate_manager task), the penalty box (retry_after_event / *)
(* retry_after_time) and the retry loop of request().                      *)
(*                                                                         *)
(* Time is counted in ticks of min_sleep (0.1 s).  A step of a task is the  *)
(* code it runs between two awaits that really suspend.  The event loop    *)
(* keeps its ready tasks in a FIFO: a task released by Event.set() or by    *)
(* Queue.put_nowait() is appended to it, and so is a task whose timer or    *)
(* transport call has completed.  Callers of request() and close() are     *)
(* tasks of the application, which run at any point between two steps.     *)
(***************************************************************************)
EXTENDS Integers, FiniteSets, Sequences, TLC

\* ---------------------------------------------------------------- bounds
NReq == 2                       \* concurrent request() tasks
MaxTime == 5                    \* last tick of the clock
MaxRetries == 2                 \* largest value of the retries argument
MaxBurst == 2                   \* largest value of rate_limit_burst
MaxDelay == 2                   \* largest integer Retry-After, in ticks
MaxCloses == 2                  \* close() calls
MaxCeiling == 2                 \* largest value of max_requests

\* ------------------------------------------------------ program constants
TicksPerSec == 10               \* 1 / min_sleep
MinSleep == 1                   \* min_sleep, in ticks
StartTime == 1                  \* time.monotonic() at construction (positive)
None == -1                      \* Python's None for a time or a status
rate_limit_min_burst_size == 2  \* the class attribute of that name

Reqs == 1 .. NReq
RM == 0                         \* the _rate_manager task in the ready list
Rates == {0, 5, 15}             \* rate_limit, tokens per second; 0 disables
Bursts == 0 .. MaxBurst
Ceilings == 1 .. MaxCeiling
RetryForStatuses == {500, 502, 503, 504, 599}
Statuses == {200, 404, 429, 500}
HeaderKinds == {"int", "date", "garbage", "absent"}
Headers == [kind : {"int"}, n : 0 .. MaxDelay]
             \cup [kind : HeaderKinds \ {"int"}, n : {0}]
NoHeader == [kind |-> "absent", n |-> 0]
\* what the transport hands back: a response, or a raised ClientConnectionError
Responses == [status : {429}, hdr : Headers]
               \cup [status : (Statuses \ {429}) \cup {None}, hdr : {NoHeader}]

VARIABLES
    rate_limit,         \* self.rate_limit
    rate_limit_burst,   \* self.rate_limit_burst, the maxsize of _token_queue
    retries,            \* self.retries
    max_requests,       \* self.max_requests when the caller has set it
    clock,              \* time.monotonic()
    retry_after_event,  \* self.retry_after_event.is_set()
    retry_after_time,   \* self.retry_after_time
    qsize,              \* self._token_queue.qsize()
    session,            \* self.__session: "none", "open"
    requests_total,     \* self._requests
    waiters,            \* retry_after_event._waiters, oldest first
    getters,            \* _token_queue._getters, oldest first
    ready,              \* the event loop's ready tasks, next to run first
    rm_pc,              \* _rate_manager task: where it is suspended
    rm_now,             \* _rate_manager: local now
    last_check_end,     \* _rate_manager: local last_check_end
    wake_at,            \* _rate_manager: when its pending sleep is due
    pc,                 \* request(): where each task is suspended
    requests,           \* request(): local requests
    last_status,        \* request(): resp.status of the last response
    err,                \* request(): the exception it raised
    close_calls,        \* number of close() calls made
    close_err,          \* the exception the last close() raised
    summaries,          \* throughput summaries logged by close()
    \* history, not program state
    init_put,           \* tokens put by the initial fill
    refill_put,         \* tokens put by the periodic refill
    acquires,           \* completed _get_token calls
    sends,              \* transport calls of each request
    hist                \* class of the responses each request got so far

cfg == <<rate_limit, rate_limit_burst, retries, max_requests>>
mgr == <<retry_after_event, retry_after_time, qsize, session, requests_total>>
loop == <<waiters, getters, ready>>
rmv == <<rm_pc, rm_now, last_check_end, wake_at>>
rqv == <<pc, requests, last_status, err>>
clv == <<close_calls, close_err, summaries>>
ghost == <<init_put, refill_put, acquires, sends, hist>>
vars == <<cfg, clock, mgr, loop, rmv, rqv, clv, ghost>>

Min(a, b) == IF a <= b THEN a ELSE b
Max(a, b) == IF a >= b THEN a ELSE b

\* ------------------------------------------------------------ pure helpers
\* Python truthiness of a number or None: `if self.retry_after_time:`
Truthy(x) == x # None /\ x # 0

\* a predicate that retries every error status
default_retry_AnyError(status) == status >= 400

\* default_retry on a raised ClientResponseError with that status
default_retry(status) == status \in RetryForStatuses

\* _sleep_duration: max(1 / rate_limit, min_sleep), in ticks (exact for the
\* rates of Rates: 10 / rate is whole or below the floor)
_sleep_duration(rate) == Max(TicksPerSec \div rate, MinSleep)

\* asyncio.Queue.full()
QueueFull(q, maxsize) == IF maxsize <= 0 THEN FALSE ELSE q >= maxsize

\* asyncio.Queue.empty(), the wait condition of Queue.get()
QueueEmpty(q) == q = 0

\* a get that leaves the token in the queue
TakeToken_Kept(q) == q

\* Queue.get_nowait(): one token leaves the queue
TakeToken(q) == q - 1

\* an initial fill of one token too many
InitialFill_OneMore(maxsize) == Max(maxsize, 0) + 1

\* the initial fill: for i in range(0, maxsize): put_nowait(i)
InitialFill(maxsize) == Max(maxsize, 0)

\* a penalty test that fires one tick early
PenaltyExpired_Early(n, rat) == n + 1 >= rat

\* `now >= self.retry_after_time`
PenaltyExpired(n, rat) == n >= rat

\* a refill that forgets the headroom of the bucket
NewTokens_NoCap(rate, n, lce, q, maxsize) ==
    (rate * (n - lce)) \div TicksPerSec

\* int(min(rate_limit * (now - last_check_end), maxsize - qsize)), the time
\* being in ticks; int() truncates toward zero and no operand is negative
NewTokens(rate, n, lce, q, maxsize) ==
    Min((rate * (n - lce)) \div TicksPerSec, maxsize - q)

\* a refill guard that never lets a refill through
MayRefill_Never(q, maxsize, rat) == FALSE

\* the refill guard: not (queue.full() or self.retry_after_time)
MayRefill(q, maxsize, rat) == ~(QueueFull(q, maxsize) \/ Truthy(rat))

\* _parse_retry_after(resp.headers.get('Retry-After', default)):
\* int(value) answers for an integer string; for any other string it
\* raises ValueError and the second try block names the module `parser`,
\* which is never imported (NameError); an absent header makes value the
\* AttributeError object __getattr__ returns for default_retry_after_delay,
\* and int() of it is a TypeError
_parse_retry_after(h) ==
    CASE h.kind = "int" -> [ok |-> TRUE, secs |-> h.n, exc |-> "none"]
      [] h.kind = "absent" -> [ok |-> FALSE, secs |-> 0, exc |-> "TypeError"]
      [] OTHER -> [ok |-> FALSE, secs |-> 0, exc |-> "NameError"]

\* a 429 handler that leaves the gate as it is
Cleared_Forgotten(ev) == ev

\* self.retry_after_event.clear() of line 281: the flag afterwards
Cleared(ev) == FALSE

\* a test of rate_limit that holds for every value
Limited_Always(rate) == TRUE

\* `if self.rate_limit:` of _get_token: 0 and None disable the limiting
Limited(rate) == rate # 0

\* `self.max_requests and self._requests == self.max_requests`: when the
\* attribute was never set the left side is the object __getattr__ returns,
\* which equals no number
CeilingHit(max, n) == max # None /\ Truthy(max) /\ n = max

\* a loop test that allows one attempt too many
ShouldAttempt_OneMore(n, max) == n <= max

\* `while requests < self.retries`
ShouldAttempt(n, max) == n < max

\* the class of a response, for the history of a request
Class(resp) ==
    IF resp.status = 429 THEN "throttled"
    ELSE IF resp.status \in RetryForStatuses THEN "retryable" ELSE "other"
Merge(h, c) == IF h = "none" \/ h = c THEN c ELSE "mixed"

\* ------------------------------------------------------------------- init
\* the state __init__ leaves, for the arguments rate_limit, rate_limit_burst
\* and retries: the gate open, no deadline, an empty queue, and the
\* _rate_manager task created and ready when rate_limit is truthy; ceil is
\* the max_requests attribute the caller sets on the object, None for none
\* (__init__ has no such parameter)
InitWith(rate, burst, ret, ceil) ==
    /\ max_requests = ceil
    /\ rate_limit = rate
    /\ rate_limit_burst = burst
    /\ retries = ret
    /\ clock = StartTime
    /\ retry_after_event = TRUE
    /\ retry_after_time = None
    /\ qsize = 0
    /\ session = "none"
    /\ requests_total = 0
    /\ waiters = << >>
    /\ getters = << >>
    /\ ready = IF rate_limit # 0 THEN <<RM>> ELSE << >>
    /\ rm_pc = IF rate_limit # 0 THEN "init" ELSE "none"
    /\ rm_now = StartTime
    /\ last_check_end = StartTime
    /\ wake_at = StartTime
    /\ pc = [r \in Reqs |-> "idle"]
    /\ requests = [r \in Reqs |-> 0]
    /\ last_status = [r \in Reqs |-> None]
    /\ err = [r \in Reqs |-> "none"]
    /\ close_calls = 0
    /\ close_err = "none"
    /\ summaries = 0
    /\ init_put = 0
    /\ refill_put = 0
    /\ acquires = 0
    /\ sends = [r \in Reqs |-> 0]
    /\ hist = [r \in Reqs |-> "none"]

Init ==
    \E rate \in Rates, burst \in Bursts, ret \in 1 .. MaxRetries :
        InitWith(rate, burst, ret, None)

\* ------------------------------------------------------------------ clock
Tick ==
    /\ clock < MaxTime
    /\ clock' = clock + 1
    /\ UNCHANGED <<cfg, mgr, loop, rmv, rqv, clv, ghost>>

\* ---------------------------------------------------------------- request
\* a request that goes to the transport without waiting for _get_token
Acquire_NotAwaited(r, ev) ==
    /\ pc' = [pc EXCEPT ![r] = "in_flight"]
    /\ session' = "open"
    /\ sends' = [sends EXCEPT ![r] = @ + 1]
    /\ UNCHANGED <<qsize, waiters, getters, acquires>>

\* _get_token from `if self.rate_limit:` (the ceiling test above it never
\* fires: max_requests is not an attribute, __getattr__ answers with an
\* exception object, which is truthy and equal to no number) up to the
\* transport call of line 268.  ev is the gate as the caller's step has
\* left it.  The task runs on to "in_flight" when the gate is open and a
\* token is there, and otherwise suspends in Event.wait() or Queue.get().
Acquire(r, ev) ==
    IF Limited(rate_limit) /\ ~ev
    THEN /\ pc' = [pc EXCEPT ![r] = "wait_event"]
         /\ waiters' = Append(waiters, r)
         /\ UNCHANGED <<qsize, getters, session, acquires, sends>>
    ELSE IF Limited(rate_limit) /\ QueueEmpty(qsize)
    THEN /\ pc' = [pc EXCEPT ![r] = "wait_token"]
         /\ getters' = Append(getters, r)
         /\ UNCHANGED <<qsize, waiters, session, acquires, sends>>
    ELSE /\ pc' = [pc EXCEPT ![r] = "in_flight"]
         /\ qsize' = IF Limited(rate_limit) THEN TakeToken(qsize) ELSE qsize
         /\ acquires' = acquires + 1
         /\ session' = "open"
         /\ sends' = [sends EXCEPT ![r] = @ + 1]
         /\ UNCHANGED <<waiters, getters>>

\* the top of `while requests < self.retries`: count the attempt and go
\* for a token, or leave the loop and raise RetriesExceededError.  When
\* the ceiling test of _get_token fires, line 222 names
\* MaximumRequestsExceeded, which is defined nowhere: the NameError is
\* caught at line 286, declined by the retry predicate and raised again.
Attempt(r, ev) ==
    IF ShouldAttempt(requests[r], retries)
    THEN /\ requests' = [requests EXCEPT ![r] = @ + 1]
         /\ requests_total' = requests_total + 1
         /\ IF CeilingHit(max_requests, requests_total + 1)
            THEN /\ pc' = [pc EXCEPT ![r] = "raised"]
                 /\ err' = [err EXCEPT ![r] = "NameError"]
                 /\ UNCHANGED <<qsize, waiters, getters, session, acquires,
                                sends>>
            ELSE /\ err' = err
                 /\ Acquire(r, ev)
    ELSE /\ pc' = [pc EXCEPT ![r] = "raised"]
         /\ err' = [err EXCEPT ![r] = "RetriesExceededError"]
         /\ UNCHANGED <<qsize, waiters, getters, requests, requests_total,
                        session, acquires, sends>>

\* the exception leaves request(): `raise` of line 290
Raise(r, e) ==
    /\ pc' = [pc EXCEPT ![r] = "raised"]
    /\ err' = [err EXCEPT ![r] = e]
    /\ UNCHANGED <<qsize, waiters, getters, requests, requests_total,
                   session, acquires, sends>>

\* a task of the application calls request(), which runs to its first
\* suspension point
Request(r) ==
    /\ pc[r] = "idle"
    /\ Attempt(r, retry_after_event)
    /\ UNCHANGED <<cfg, clock, retry_after_event, retry_after_time, ready,
                   rmv, last_status, clv, init_put, refill_put, hist>>

\* retry_after_event.wait() returns: the waiter was released by set() and
\* does not look at the flag again
EventWoken(r) ==
    /\ ready # << >> /\ Head(ready) = r
    /\ pc[r] = "event_woken"
    /\ ready' = Tail(ready)
    /\ Acquire(r, TRUE)
    /\ UNCHANGED <<cfg, clock, retry_after_event, retry_after_time, rmv,
                   requests, requests_total, last_status, err, clv,
                   init_put, refill_put, hist>>

\* the getter of Queue.get() was released by a put: the task takes a token,
\* or waits again when the queue is empty once more
TokenWoken(r) ==
    /\ ready # << >> /\ Head(ready) = r
    /\ pc[r] = "token_woken"
    /\ ready' = Tail(ready)
    /\ Acquire(r, TRUE)
    /\ UNCHANGED <<cfg, clock, retry_after_event, retry_after_time, rmv,
                   requests, requests_total, last_status, err, clv,
                   init_put, refill_put, hist>>

\* the transport call of a request completes: its task becomes ready
Arrive(r) ==
    /\ pc[r] = "in_flight"
    /\ pc' = [pc EXCEPT ![r] = "responded"]
    /\ ready' = Append(ready, r)
    /\ UNCHANGED <<cfg, clock, mgr, waiters, getters, rmv, requests,
                   last_status, err, clv, ghost>>

\* request() resumes after the transport call, with a response or with a
\* raised error, and runs on to its next suspension point or to its end
Respond(r) ==
    /\ ready # << >> /\ Head(ready) = r
    /\ pc[r] = "responded"
    /\ ready' = Tail(ready)
    /\ \E resp \in Responses :
        /\ last_status' = [last_status EXCEPT ![r] = resp.status]
        /\ hist' = [hist EXCEPT ![r] = Merge(@, Class(resp))]
        /\ IF resp.status = None
           THEN \* meth() raised; default_retry declines what is not a
                \* ClientResponseError
                /\ Raise(r, "ClientConnectionError")
                /\ UNCHANGED <<retry_after_event, retry_after_time>>
           ELSE IF resp.status = 429
           THEN LET parsed == _parse_retry_after(resp.hdr) IN
                IF parsed.ok
                THEN /\ retry_after_time' = clock + parsed.secs
                     /\ retry_after_event' = Cleared(retry_after_event)
                     /\ Attempt(r, Cleared(retry_after_event))
                ELSE /\ Raise(r, parsed.exc)
                     /\ UNCHANGED <<retry_after_event, retry_after_time>>
           ELSE IF resp.status < 400
           THEN /\ pc' = [pc EXCEPT ![r] = "returned"]
                /\ UNCHANGED <<qsize, waiters, getters, requests,
                               requests_total, session, acquires, sends,
                               err, retry_after_event, retry_after_time>>
           ELSE \* raise_for_status() raised ClientResponseError
                /\ UNCHANGED <<retry_after_event, retry_after_time>>
                /\ IF default_retry(resp.status)
                   THEN Attempt(r, retry_after_event)
                   ELSE Raise(r, "ClientResponseError")
    /\ UNCHANGED <<cfg, clock, rmv, clv, init_put, refill_put>>

\* ------------------------------------------------------------ _rate_manager
SeqRange(q) == {q[i] : i \in 1 .. Len(q)}

\* lines 183-203: refill when the bucket is not full and no penalty is set,
\* store the time and sleep the interval.  n is the local `now` (stale when
\* the task comes back from the penalty sleep), filled the tokens the step
\* has already put, rat and ev the penalty box as the step has left it,
\* rel the waiters of the gate the step has released.  Each put_nowait
\* releases the oldest getter; the released tasks join the ready list.
RefillAndSleep(n, filled, rat, ev, rel) ==
    LET q == qsize + filled
        add == IF MayRefill(q, rate_limit_burst, rat)
               THEN Max(NewTokens(rate_limit, n, last_check_end, q,
                                  rate_limit_burst), 0)
               ELSE 0
        k == Min(filled + add, Len(getters))
        got == SubSeq(getters, 1, k)
    IN /\ qsize' = q + add
       /\ refill_put' = refill_put + add
       /\ retry_after_time' = rat
       /\ retry_after_event' = ev
       /\ getters' = SubSeq(getters, k + 1, Len(getters))
       /\ waiters' = IF rel = << >> THEN waiters ELSE << >>
       /\ ready' = Tail(ready) \o rel \o got
       /\ pc' = [r \in Reqs |->
                    IF r \in SeqRange(rel) THEN "event_woken"
                    ELSE IF r \in SeqRange(got) THEN "token_woken"
                    ELSE pc[r]]
       /\ rm_now' = n
       /\ last_check_end' = n
       /\ rm_pc' = "sleep"
       /\ wake_at' = clock + _sleep_duration(rate_limit)

\* one pass of `while True` from line 168: the penalty test, then either
\* the sleep to the deadline or the refill and the interval sleep
RateLoop(filled) ==
    IF Truthy(retry_after_time) /\ ~PenaltyExpired(clock, retry_after_time)
    THEN LET k == Min(filled, Len(getters))
             got == SubSeq(getters, 1, k)
         IN /\ rm_pc' = "penalty_sleep"
            /\ rm_now' = clock
            /\ wake_at' = retry_after_time
            /\ qsize' = qsize + filled
            /\ getters' = SubSeq(getters, k + 1, Len(getters))
            /\ ready' = Tail(ready) \o got
            /\ pc' = [r \in Reqs |->
                        IF r \in SeqRange(got) THEN "token_woken" ELSE pc[r]]
            /\ UNCHANGED <<last_check_end, retry_after_time,
                           retry_after_event, refill_put, waiters>>
    ELSE IF Truthy(retry_after_time)
    THEN RefillAndSleep(clock, filled, None, TRUE, waiters)
    ELSE RefillAndSleep(clock, filled, retry_after_time, retry_after_event,
                        << >>)

\* first run of the task: the initial fill and the first pass of the loop
RateManagerStart ==
    /\ ready # << >> /\ Head(ready) = RM
    /\ rm_pc = "init"
    /\ init_put' = InitialFill(rate_limit_burst)
    /\ RateLoop(InitialFill(rate_limit_burst))
    /\ UNCHANGED <<cfg, clock, session, requests_total, requests,
                   last_status, err, clv, acquires, sends, hist>>

\* the timer of the pending asyncio.sleep is due: the task becomes ready
TimerFire ==
    /\ rm_pc \in {"sleep", "penalty_sleep"}
    /\ clock >= wake_at
    /\ rm_pc' = IF rm_pc = "sleep" THEN "sleep_due" ELSE "penalty_due"
    /\ ready' = Append(ready, RM)
    /\ UNCHANGED <<cfg, clock, mgr, waiters, getters, rm_now,
                   last_check_end, wake_at, rqv, clv, ghost>>

\* asyncio.sleep(sleep) of line 203 returns: the next pass of the loop
RateManagerWake ==
    /\ ready # << >> /\ Head(ready) = RM
    /\ rm_pc = "sleep_due"
    /\ RateLoop(0)
    /\ UNCHANGED <<cfg, clock, session, requests_total, requests,
                   last_status, err, clv, init_put, acquires, sends, hist>>

\* asyncio.sleep(retry_wake_in) of line 180 returns: the pass goes on at
\* line 183 with the `now` it read before the sleep
RateManagerPenaltyWake ==
    /\ ready # << >> /\ Head(ready) = RM
    /\ rm_pc = "penalty_due"
    /\ RefillAndSleep(rm_now, 0, retry_after_time, retry_after_event, << >>)
    /\ UNCHANGED <<cfg, clock, session, requests_total, requests,
                   last_status, err, clv, init_put, acquires, sends, hist>>

\* ------------------------------------------------------------------ close
\* close(): `self._rate_manager != None` is true of the bound method, so
\* the task is cancelled when there is one (it ends at its await without
\* running another pass), and when there is none _rate_manager_task is the
\* exception object __getattr__ returns, whose .cancel raises
\* AttributeError before the session is closed.  The summary of line 123
\* is logged first, on every call.
Close ==
    /\ close_calls < MaxCloses
    /\ close_calls' = close_calls + 1
    /\ summaries' = summaries + 1
    /\ IF rate_limit # 0
       THEN /\ rm_pc' = "done"
            /\ ready' = SelectSeq(ready, LAMBDA t : t # RM)
            /\ session' = "none"
            /\ close_err' = "none"
       ELSE /\ close_err' = "AttributeError"
            /\ UNCHANGED <<rm_pc, ready, session>>
    /\ UNCHANGED <<cfg, clock, retry_after_event, retry_after_time, qsize,
                   requests_total, waiters, getters, rm_now, last_check_end,
                   wake_at, rqv, ghost>>

\* ------------------------------------------------------------------- spec
RequestStep(r) ==
    \/ Request(r)
    \/ EventWoken(r)
    \/ TokenWoken(r)
    \/ Arrive(r)
    \/ Respond(r)

RateManagerStep ==
    \/ RateManagerStart
    \/ TimerFire
    \/ RateManagerWake
    \/ RateManagerPenaltyWake

Next ==
    \/ Tick
    \/ \E r \in Reqs : RequestStep(r)
    \/ RateManagerStep
    \/ Close

Spec == Init /\ [][Next]_vars

\* the tasks the event loop runs are run in the end, timers fire, transport
\* calls complete and time goes on; callers owe no call of request() or
\* close()
Fairness ==
    /\ WF_vars(Tick)
    /\ WF_vars(RateManagerStep)
    /\ \A r \in Reqs :
        WF_vars(EventWoken(r) \/ TokenWoken(r) \/ Arrive(r) \/ Respond(r))

FairSpec == Spec /\ Fairness

\* the manager with a ceiling on the total of requests
InitCeiling ==
    \E rate \in Rates, burst \in Bursts, ret \in 1 .. MaxRetries,
       ceil \in Ceilings :
        InitWith(rate, burst, ret, ceil)

SpecCeiling == InitCeiling /\ [][Next]_vars

\* --------------------------------------------------- continuous demand
\* The bucket under continuous demand and no throttling: callers beyond the
\* request tasks take every token as soon as it is there (the path of
\* _get_token that does not suspend), the timer of the refill task fires
\* on time, and the bucket holds what one interval can bring.
DemandRates == {5, 10, 15, 20, 25}

InitDemand ==
    \E rate \in DemandRates, burst \in 3 .. MaxBurst + 2 :
        InitWith(rate, burst, 1, None)

Demand ==
    /\ retry_after_event
    /\ ~QueueEmpty(qsize)
    /\ qsize' = TakeToken(qsize)
    /\ acquires' = acquires + 1
    /\ UNCHANGED <<cfg, clock, retry_after_event, retry_after_time, session,
                   requests_total, loop, rmv, rqv, clv, init_put,
                   refill_put, sends, hist>>

TickDemand ==
    /\ QueueEmpty(qsize)
    /\ ready = << >>
    /\ ~(rm_pc = "sleep" /\ clock >= wake_at)
    /\ Tick

NextDemand ==
    \/ TickDemand
    \/ Demand
    \/ RateManagerStart
    \/ TimerFire
    \/ RateManagerWake

SpecDemand == InitDemand /\ [][NextDemand]_vars

\* ------------------------------------------------------- time without end
\* The manager left running: rate limiting on, a bucket of at least the
\* minimum burst size, the largest retries, no ceiling, no close().
\* time.monotonic() has no last tick here: once the clock stands at MaxTime
\* a tick moves every stored time one tick into the past instead, which
\* keeps every difference and comparison the code makes.  A stored time that
\* is MaxTime - StartTime ticks old is not aged further; it is a time that
\* is due, and the refill of a gap that long is counted as the refill of
\* MaxTime - StartTime ticks.  A step of a task takes no time: the clock
\* stands while a task is ready to run.
Aged(t) == IF t = None THEN None ELSE Max(t - 1, StartTime)

TickLive ==
    \/ ready = << >> /\ Tick
    \/ /\ clock = MaxTime
       /\ ready = << >>
       /\ retry_after_time' = Aged(retry_after_time)
       /\ rm_now' = Aged(rm_now)
       /\ last_check_end' = Aged(last_check_end)
       /\ wake_at' = Aged(wake_at)
       /\ UNCHANGED <<cfg, clock, retry_after_event, qsize, session,
                      requests_total, loop, rm_pc, rqv, clv, ghost>>

InitLive ==
    \E rate \in Rates \ {0},
       burst \in rate_limit_min_burst_size .. MaxBurst :
        InitWith(rate, burst, MaxRetries, None)

\* The callers are named in the order of their calls of request().  A
\* response either ends the request, and 200 stands for those, or sends it
\* for another token, and 429 with a delay that parses stands for those: it
\* closes the gate as well.
LiveStatuses == {200, 429}

RequestLive(r) ==
    /\ \A q \in Reqs : q < r => pc[q] # "idle"
    /\ Request(r)

RespondLive(r) ==
    /\ Respond(r)
    /\ last_status'[r] \in LiveStatuses
    /\ err'[r] \in {"none", "RetriesExceededError"}

NextLive ==
    \/ TickLive
    \/ \E r \in Reqs : RequestLive(r)
    \/ \E r \in Reqs : EventWoken(r)
    \/ \E r \in Reqs : TokenWoken(r)
    \/ \E r \in Reqs : Arrive(r)
    \/ \E r \in Reqs : RespondLive(r)
    \/ RateManagerStep

\* time goes on, the event loop runs its ready tasks and fires the timers
\* that are due, and every transport call completes
FairnessLive ==
    /\ WF_vars(TickLive)
    /\ WF_vars(RateManagerStep)
    /\ \A r \in Reqs :
        WF_vars(EventWoken(r) \/ TokenWoken(r) \/ Arrive(r)
                    \/ RespondLive(r))

LiveSpec == InitLive /\ [][NextLive]_vars /\ FairnessLive

\* ----------------------------------------------------------------- claims
RECURSIVE SumOver(_, _)
SumOver(f, S) ==
    IF S = {} THEN 0
    ELSE LET x == CHOOSE y \in S : TRUE IN f[x] + SumOver(f, S \ {x})

Capacity == Max(rate_limit_burst, 0)
Pending(r) ==
    pc[r] \in {"wait_event", "event_woken", "wait_token", "token_woken"}

\* C1: with rate limiting on, the number of tokens in the bucket stays
\* between 0 and the capacity; a step that raises it is a step of the
\* _rate_manager task (initial fill or refill pass); a step that completes
\* an Acquire takes exactly one token, and nothing else lowers the count.
C1_TokensBounded ==
    /\ [](rate_limit # 0 => qsize \in 0 .. Capacity)
    /\ [][rate_limit # 0 =>
            /\ qsize' > qsize => RateManagerStart \/ RateManagerWake
            /\ acquires' # acquires =>
                    acquires' = acquires + 1 /\ qsize' = qsize - 1
            /\ qsize' < qsize => acquires' = acquires + 1]_vars

C1_Witness ==
    /\ rate_limit # 0
    /\ refill_put > 0
    /\ acquires > init_put
    /\ qsize = Capacity

\* C2 (as claimed): with rate limiting on, no Acquire completes while the
\* deadline t + d stored by the latest 429 is still in the future.
C2_NoAcquireBeforeDeadline ==
    [][(rate_limit # 0 /\ acquires' > acquires) =>
            ~(Truthy(retry_after_time') /\ clock' < retry_after_time')]_vars

\* C3: the refill task puts a token only in a step that starts with no
\* deadline set or that clears an expired one; the deadline goes from set
\* to unset only in a pass of the refill task, at a time at or past the
\* value it held.
C3_PenaltyHeldByRefill ==
    [][/\ qsize' > qsize =>
            \/ retry_after_time = None
            \/ retry_after_time' = None /\ clock >= retry_after_time
       /\ (retry_after_time # None /\ retry_after_time' = None) =>
            /\ RateManagerStart \/ RateManagerWake
            /\ clock >= retry_after_time
            /\ retry_after_event']_vars

C3_Witness ==
    /\ retry_after_time = None
    /\ refill_put > 0
    /\ \E r \in Reqs : pc[r] = "event_woken"

\* C4: a request that has got only retryable error statuses never returns
\* and never makes more than retries attempts; when it has ended it has
\* raised RetriesExceededError after exactly retries attempts and retries
\* transport calls, each counted once in the global counter.
C4_RetriesExhausted ==
    /\ requests_total = SumOver(requests, Reqs)
    /\ \A r \in Reqs : hist[r] = "retryable" =>
        /\ pc[r] # "returned"
        /\ requests[r] <= retries
        /\ pc[r] = "raised" =>
            /\ err[r] = "RetriesExceededError"
            /\ requests[r] = retries
            /\ sends[r] = retries

C4_Witness ==
    \E r \in Reqs :
        /\ hist[r] = "retryable"
        /\ pc[r] = "raised"
        /\ retries = MaxRetries

\* C5: a request whose first attempt meets an error the predicate declines
\* (a non-retryable status, or a transport error) has ended with that very
\* error, with one attempt and one transport call on its account.
C5_NonRetryableIsFinal ==
    \A r \in Reqs :
        (hist[r] = "other" /\ (last_status[r] = None \/ last_status[r] >= 400))
        => /\ pc[r] = "raised"
           /\ err[r] = IF last_status[r] = None THEN "ClientConnectionError"
                       ELSE "ClientResponseError"
           /\ requests[r] = 1
           /\ sends[r] = 1

C5_Witness ==
    \E r \in Reqs :
        /\ hist[r] = "other"
        /\ last_status[r] = 404
        /\ pc[r] = "raised"
        /\ retries > 1
        /\ \E o \in Reqs : pc[o] = "wait_token"

\* C6 (as claimed): a request answered only by 429s never returns, and
\* when it has ended it has raised RetriesExceededError after retries
\* attempts, whatever the Retry-After headers were.
C6_ThrottledNeverTerminal ==
    \A r \in Reqs : hist[r] = "throttled" =>
        /\ pc[r] # "returned"
        /\ pc[r] = "raised" =>
            err[r] = "RetriesExceededError" /\ requests[r] = retries

\* C7: with a burst size of at least 2, as long as the refill pass has
\* added no token, at most burst Acquire calls have completed.
C7_ColdStartBurst ==
    (rate_limit # 0 /\ rate_limit_burst >= 2 /\ refill_put = 0)
        => acquires <= rate_limit_burst

C7_Witness ==
    /\ rate_limit # 0
    /\ rate_limit_burst >= 2
    /\ refill_put = 0
    /\ acquires = rate_limit_burst
    /\ \E r \in Reqs : pc[r] = "wait_token"

\* C8: with rate limiting on, the completed Acquire calls are as many as
\* the tokens put (initial fill and refills) less the tokens in the queue.
C8_TokensConserved ==
    rate_limit # 0 => acquires = init_put + refill_put - qsize

C8_Witness ==
    /\ rate_limit # 0
    /\ refill_put > 0
    /\ acquires > init_put
    /\ \A r \in Reqs : sends[r] > 0

\* C9 (as claimed): under continuous demand and no penalty, after any
\* number of wakes of the refill task the tokens it has added fall short of
\* rate times the elapsed time by at most one interval's worth of tokens
\* (both sides times TicksPerSec, the time being in ticks).
C9_RefillKeepsRate ==
    rm_pc = "sleep" =>
        rate_limit * (last_check_end - StartTime) - TicksPerSec * refill_put
            <= rate_limit * _sleep_duration(rate_limit)

\* C10 (as claimed): an Acquire that is pending in Event.wait() or in
\* Queue.get() once close() has cancelled the refill task unwinds in the
\* end: it returns or raises.
C10_PendingAcquireUnwinds ==
    \A r \in Reqs :
        (close_calls > 0 /\ rm_pc = "done"
            /\ pc[r] \in {"wait_event", "wait_token"}) ~> ~Pending(r)

\* C11 (as claimed): no call of close() raises, whatever the configuration,
\* and a second call repeats no teardown side effect of the first: the
\* throughput summary is logged once.
C11_CloseIdempotent ==
    /\ close_err = "none"
    /\ summaries <= 1

\* C12 (as claimed): with a ceiling set, the transport calls never exceed
\* it, and once the total of requests has reached it a request has ended
\* with MaxRequestsExceededError.
C12_CeilingIsFatal ==
    max_requests # None =>
        /\ SumOver(sends, Reqs) <= max_requests
        /\ requests_total >= max_requests =>
            \E r \in Reqs :
                pc[r] = "raised" /\ err[r] = "MaxRequestsExceededError"

\* C13 (as claimed): _parse_retry_after raises nothing, whatever the
\* Retry-After value of the 429 (integer, HTTP-date, unparseable, absent):
\* no request whose last response was a 429 has ended with the TypeError or
\* the NameError of the parse.
C13_ParseNeverRaises ==
    \A r \in Reqs :
        last_status[r] = 429 => err[r] \notin {"TypeError", "NameError"}

\* C14: with rate limiting off there is no refill task and no token state,
\* no Acquire ever waits (not even behind a closed gate), and every
\* attempt counted has been dispatched in the step that counted it.
C14_DisabledNeverWaits ==
    rate_limit = 0 =>
        /\ rm_pc = "none"
        /\ RM \notin SeqRange(ready)
        /\ qsize = 0 /\ init_put = 0 /\ refill_put = 0
        /\ waiters = << >> /\ getters = << >>
        /\ \A r \in Reqs : ~Pending(r) /\ sends[r] = requests[r]

C14_Witness ==
    /\ rate_limit = 0
    /\ ~retry_after_event
    /\ \E r \in Reqs : pc[r] = "in_flight" /\ requests[r] >= 2

\* C15 (as claimed): whatever burst size was passed, the bucket the refill
\* task has filled has a capacity of at least rate_limit_min_burst_size.
C15_MinimumBurst ==
    rm_pc \in {"sleep", "sleep_due", "penalty_sleep", "penalty_due"} =>
        /\ Capacity >= rate_limit_min_burst_size
        /\ init_put >= rate_limit_min_burst_size

\* C16 (as claimed): the deadline of a 429 processed during a penalty is
\* the one in force from then on, later or earlier than the first, also
\* for a refill task that already sleeps towards the first one: its
\* penalty sleep never outlasts the deadline now stored, so that the gate
\* can reopen by the new deadline.
C16_LastDeadlineInForce ==
    (rm_pc = "penalty_sleep" /\ retry_after_time # None)
        => wake_at <= retry_after_time

\* C17 (as claimed): the refill task that has slept to the deadline
\* rechecks right then: the pass it resumes at or past the deadline stored
\* clears the penalty and opens the gate, not a pass one interval later.
C17_ClearedAtDeadlineWake ==
    [][(rm_pc = "penalty_due" /\ rm_pc' = "sleep"
            /\ clock >= retry_after_time)
        => (retry_after_time' = None /\ retry_after_event')]_vars

\* C18: with rate limiting on, the transport calls made are at most the
\* tokens taken from the bucket and at most the Acquire calls completed; a
\* request has made one transport call per attempt, less the attempt whose
\* Acquire is still pending.
C18_SendAfterAcquire ==
    rate_limit # 0 =>
        /\ SumOver(sends, Reqs) <= init_put + refill_put - qsize
        /\ SumOver(sends, Reqs) <= acquires
        /\ \A r \in Reqs :
            /\ sends[r] <= requests[r]
            /\ Pending(r) => sends[r] = requests[r] - 1

C18_Witness ==
    /\ rate_limit # 0
    /\ qsize = 0
    /\ \E r \in Reqs : pc[r] = "wait_token" /\ sends[r] = 1
    /\ \E r \in Reqs : pc[r] = "in_flight" /\ sends[r] = 2

\* C19: the gate is closed exactly when a deadline is stored.
C19_GateAgreesWithDeadline ==
    ~retry_after_event <=> retry_after_time # None

C19_Witness ==
    /\ retry_after_event
    /\ retry_after_time = None
    /\ rm_pc = "sleep"
    /\ \E r \in Reqs : pc[r] = "event_woken"
    /\ \E r \in Reqs : hist[r] = "throttled" /\ pc[r] = "raised"

\* C20: with rate limiting on, a bucket of at least two tokens, the refill
\* task running and the 429 responses bounded by the retries, under fair
\* scheduling every penalty is cleared in the end and every request waiting
\* in Acquire leaves it in the end; and a step that calls Acquire or resumes
\* in it ends waiting in it or at the transport call, never with an error.
C20_AcquireReturns ==
    /\ (retry_after_time # None) ~> (retry_after_time = None)
    /\ \A r \in Reqs : Pending(r) ~> ~Pending(r)
    /\ [][\A r \in Reqs :
            (requests'[r] # requests[r] \/ (Pending(r) /\ pc'[r] # pc[r]))
                => (Pending(r)' \/ pc'[r] = "in_flight")]_vars

C20_Witness ==
    /\ retry_after_time = None
    /\ retry_after_event
    /\ clock = MaxTime
    /\ refill_put > 0
    /\ \E r \in Reqs :
        /\ hist[r] = "throttled"
        /\ requests[r] >= 2
        /\ pc[r] = "in_flight"

====
